---------------------------- MODULE Spec2Model ----------------------------
(***************************************************************************)
(* State-machine model of the wordle solver in src/src/main.rs: the        *)
(* constraint model (Constraints), the pattern classifier (simulate_guess),*)
(* the fitness function, the parallel arg-max search (find_best_guess),    *)
(* the benchmark loop and the interactive assister (run_assister).         *)
(*                                                                         *)
(* A word is a tuple of five one-character strings.  f64 quantities are    *)
(* modelled in fixed point: probabilities, frequencies and entropies in    *)
(* thousandths (Milli), the fitness in millionths.                         *)
(***************************************************************************)
EXTENDS Integers, Sequences, FiniteSets, TLC

VARIABLES
    mode,              \* "benchmark" or "assister"            (main, bench)
    hard_mode,         \* BOOLEAN                              (main, hard_mode)
    all_words,         \* Vec<&str>: the guess vocabulary
    words,             \* Vec<&str>: the candidate pool
    seen,              \* SeenLetterBitFlags(u32)
    freq_data,         \* [HashMap<u8, f64>; 5], in thousandths
    probabilities,     \* HashMap<&str, f64>, in thousandths
    constraints,       \* Constraints
    i,                 \* the round counter of the episode
    guess,             \* the guess selected in this round (guess / best_guess)
    scored,            \* the vocabulary with its fitness, as mapped by the search
    partials,          \* the partial maxima of the running parallel reduction
    iteration,         \* benchmark: index of the episode
    correct,           \* benchmark: the hidden answer of the episode
    failures,          \* benchmark: episodes lost
    total_iterations,  \* benchmark: sum of the rounds of the episodes
    pc,                \* position in the code
    outcome,           \* how the current episode or session ended
    out,               \* the last message printed
    hist               \* history: the set of (guess, feedback) folded in this episode

vars == <<mode, hard_mode, all_words, words, seen, freq_data, probabilities,
          constraints, i, guess, scored, partials, iteration, correct, failures,
          total_iterations, pc, outcome, out, hist>>

---------------------------------------------------------------------------
(* Bounds of the model.                                                    *)

\* The assister's loop has no upper limit on its round counter; the model
\* stops starting new rounds once i has reached MaxRounds.
MaxRounds == 7

\* The number of guesses folded by the classifier/constraint harness (FoldSpec).
MaxFolds == 3

\* The greatest number of update_from_guess calls of the Constraints harness
\* (UpdateSpec).
MaxUpdates == 2

---------------------------------------------------------------------------
(* Basic data.                                                             *)

Range(s) == {s[k] : k \in 1..Len(s)}

RECURSIVE SumFn(_, _)
SumFn(f, n) == IF n = 0 THEN 0 ELSE f[n] + SumFn(f, n - 1)

Letters == <<"a", "b", "c", "d", "e", "f", "g", "h", "i", "j", "k", "l", "m",
             "n", "o", "p", "q", "r", "s", "t", "u", "v", "w", "x", "y", "z">>

\* (c as u8) - 'a' as u8
LetterIndex(c) == (CHOOSE k \in 1..26 : Letters[k] = c) - 1

WordLen == 5
Pos == 1..WordLen

Green == "Green"
Yellow == "Yellow"
Gray == "Gray"
WordleAnswerColor == {Green, Yellow, Gray}

\* Option::None of a letter.
None == "None"

\* A word variable that holds no word yet.
NoWord == <<>>

Salet == <<"s", "a", "l", "e", "t">>

\* solution_words.txt: a sample of the solution vocabulary, in file order.
SolutionWords ==
    << <<"c", "r", "a", "n", "e">>,
       <<"b", "r", "a", "c", "e">>,
       <<"g", "r", "a", "d", "e">>,
       <<"f", "i", "g", "h", "t">>,
       <<"m", "i", "g", "h", "t">>,
       <<"n", "i", "g", "h", "t">>,
       <<"r", "i", "g", "h", "t">>,
       <<"t", "i", "g", "h", "t">>,
       <<"w", "i", "g", "h", "t">> >>

\* guess_words.txt: the solution words followed by words that are guesses only.
GuessWords ==
    SolutionWords \o << Salet, <<"f", "r", "o", "n", "t">> >>

\* let iterations = 2309: the number of lines of solution_words.txt.
iterations == Len(SolutionWords)

max_iterations == 6

---------------------------------------------------------------------------
(* Constraints.                                                            *)

\* Constraints::new
NewConstraints ==
    [known_letters    |-> [p \in Pos |-> None],
     included_letters |-> [p \in Pos |-> <<>>],
     excluded_letters |-> <<>>]

\* Mutant of matches: the comparison with the known letter is inverted.
matches_inverted_known(cons, word) ==
    /\ \A p \in Pos :
            \/ cons.included_letters[p] = <<>>
            \/ \E c \in Range(cons.included_letters[p]) : c \in Range(word)
    /\ ~ \E c \in Range(cons.excluded_letters) : c \in Range(word)
    /\ \A p \in Pos :
            IF cons.known_letters[p] # None
            THEN word[p] # cons.known_letters[p]
            ELSE word[p] \notin Range(cons.included_letters[p])

\* Constraints::matches
matches(cons, word) ==
    /\ \A p \in Pos :
            \/ cons.included_letters[p] = <<>>
            \/ \E c \in Range(cons.included_letters[p]) : c \in Range(word)
    /\ ~ \E c \in Range(cons.excluded_letters) : c \in Range(word)
    /\ \A p \in Pos :
            IF cons.known_letters[p] # None
            THEN word[p] = cons.known_letters[p]
            ELSE word[p] \notin Range(cons.included_letters[p])

\* Mutant of UpdateStep: a Gray letter is never excluded.
UpdateStepDropsGray(acc, g, output, p) ==
    LET c == g[p]
        cons == acc.cons
    IN  CASE output[p] = Green ->
                [cons |-> [cons EXCEPT !.known_letters[p] = c],
                 seen |-> acc.seen \cup {c}]
          [] output[p] = Yellow ->
                [cons |-> IF c \in Range(cons.included_letters[p])
                          THEN cons
                          ELSE [cons EXCEPT !.included_letters[p] = Append(@, c)],
                 seen |-> acc.seen \cup {c}]
          [] OTHER ->
                [cons |-> cons, seen |-> acc.seen]

\* Mutant of UpdateStep: a Gray letter is excluded whatever was tagged before it
\* in the same guess.
UpdateStepNoSeen(acc, g, output, p) ==
    LET c == g[p]
        cons == acc.cons
    IN  CASE output[p] = Green ->
                [cons |-> [cons EXCEPT !.known_letters[p] = c],
                 seen |-> acc.seen \cup {c}]
          [] output[p] = Yellow ->
                [cons |-> IF c \in Range(cons.included_letters[p])
                          THEN cons
                          ELSE [cons EXCEPT !.included_letters[p] = Append(@, c)],
                 seen |-> acc.seen \cup {c}]
          [] OTHER ->
                [cons |-> IF c \notin Range(cons.excluded_letters)
                          THEN [cons EXCEPT !.excluded_letters = Append(@, c)]
                          ELSE cons,
                 seen |-> acc.seen]

\* One iteration of the loop of update_from_guess: acc is the pair of the
\* constraints and the local set `seen` after the positions before p.
UpdateStep(acc, g, output, p) ==
    LET c == g[p]
        cons == acc.cons
    IN  CASE output[p] = Green ->
                [cons |-> [cons EXCEPT !.known_letters[p] = c],
                 seen |-> acc.seen \cup {c}]
          [] output[p] = Yellow ->
                [cons |-> IF c \in Range(cons.included_letters[p])
                          THEN cons
                          ELSE [cons EXCEPT !.included_letters[p] = Append(@, c)],
                 seen |-> acc.seen \cup {c}]
          [] OTHER ->
                [cons |-> IF c \notin Range(cons.excluded_letters) /\ c \notin acc.seen
                          THEN [cons EXCEPT !.excluded_letters = Append(@, c)]
                          ELSE cons,
                 seen |-> acc.seen]

RECURSIVE UpdateFold(_, _, _, _)
UpdateFold(cons, g, output, p) ==
    IF p = 0 THEN [cons |-> cons, seen |-> {}]
    ELSE UpdateStep(UpdateFold(cons, g, output, p - 1), g, output, p)

\* Constraints::update_from_guess
update_from_guess(cons, g, output) == UpdateFold(cons, g, output, WordLen).cons

\* Mutant of simulate_guess: the two tests are made in the other order.
simulate_guess_contains_first(answer, g) ==
    [p \in Pos |-> IF g[p] \in Range(answer) THEN Yellow
                   ELSE IF answer[p] = g[p] THEN Green
                   ELSE Gray]

\* simulate_guess
simulate_guess(answer, g) ==
    [p \in Pos |-> IF answer[p] = g[p] THEN Green
                   ELSE IF g[p] \in Range(answer) THEN Yellow
                   ELSE Gray]

\* Mutant of Retain: nothing is removed.
RetainKeepsAll(ws, cons) == ws

\* Mutant of Retain: the full solution vocabulary is filtered again instead of
\* the pool.
RetainFromVocabulary(ws, cons) ==
    SelectSeq(IF \A k \in 1..Len(ws) : ws[k] \in Range(SolutionWords)
              THEN SolutionWords ELSE ws,
              LAMBDA w : matches(cons, w))

\* words.retain(|&word| constraints.matches(word))
Retain(ws, cons) == SelectSeq(ws, LAMBDA w : matches(cons, w))

---------------------------------------------------------------------------
(* SeenLetterBitFlags.                                                     *)

RECURSIVE Pow2(_)
Pow2(n) == IF n = 0 THEN 1 ELSE 2 * Pow2(n - 1)

\* SeenLetterBitFlags::flag_of_char
flag_of_char(c) == Pow2(LetterIndex(c))

\* SeenLetterBitFlags::get
get(flags, c) == (flags \div flag_of_char(c)) % 2 = 1

\* SeenLetterBitFlags::set
set(flags, c, val) ==
    IF val
    THEN (IF get(flags, c) THEN flags ELSE flags + flag_of_char(c))
    ELSE (IF get(flags, c) THEN flags - flag_of_char(c) ELSE flags)

RECURSIVE SetWordFold(_, _, _, _)
SetWordFold(flags, w, val, p) ==
    IF p = 0 THEN flags ELSE set(SetWordFold(flags, w, val, p - 1), w[p], val)

\* SeenLetterBitFlags::set_word
set_word(flags, w, val) == SetWordFold(flags, w, val, Len(w))

\* SeenLetterBitFlags::get_word
get_word(flags, w) == Cardinality({p \in 1..Len(w) : get(flags, w[p])})

---------------------------------------------------------------------------
(* The fitness of a guess.  Fixed point: Milli = 1.0.                      *)

Milli == 10 * 100

\* f64::log2 on the counts that occur, in thousandths.
Log2Table == <<0, 1000, 1585, 2000, 2322, 2585, 2807, 3000, 3170, 3322, 3459, 3585>>
Log2Milli(n) == Log2Table[n]

\* The first index of ws at which the pattern of ws[k] against g occurs:
\* one entry of the HashMap `distribution` per distinct pattern.
FirstOfPattern(ws, g, k) ==
    \A j \in 1..(k - 1) : simulate_guess(ws[j], g) # simulate_guess(ws[k], g)

PatternCount(ws, g, k) ==
    Cardinality({j \in 1..Len(ws) : simulate_guess(ws[j], g) = simulate_guess(ws[k], g)})

\* shannon_entropy over the distribution of the patterns of g against ws:
\* -p * log2(p) with p = count / total is count * (log2 total - log2 count) / total.
shannon_entropy(ws, g) ==
    LET total == Len(ws)
        term == [k \in 1..total |->
                    IF FirstOfPattern(ws, g, k)
                    THEN (PatternCount(ws, g, k)
                            * (Log2Milli(total) - Log2Milli(PatternCount(ws, g, k))))
                         \div total
                    ELSE 0]
    IN  SumFn(term, total)

\* letter_frequency
letter_frequency(ws) ==
    [p \in Pos |->
        [c \in {ws[k][p] : k \in 1..Len(ws)} |->
            (Cardinality({k \in 1..Len(ws) : ws[k][p] = c}) * Milli) \div Len(ws)]]

\* word_likelihood_score
word_likelihood_score(word, freq) ==
    SumFn([p \in Pos |-> IF word[p] \in DOMAIN freq[p] THEN freq[p][word[p]] ELSE 0],
          WordLen)

\* The score of one word in update_word_probabilities after the positions up to p.
RECURSIVE WordScore(_, _, _)
WordScore(word, cons, p) ==
    IF p = 0 THEN Milli
    ELSE LET s0 == WordScore(word, cons, p - 1)
             c  == word[p]
             s1 == IF cons.known_letters[p] # None /\ c = cons.known_letters[p]
                   THEN (s0 * 15) \div 10 ELSE s0
             s2 == IF \E q \in Pos : c \in Range(cons.included_letters[q])
                   THEN (s1 * 12) \div 10 ELSE s1
             s3 == IF c \in Range(cons.excluded_letters)
                   THEN s2 \div 10 ELSE s2
         IN  s3

\* update_word_probabilities
update_word_probabilities(ws, cons) ==
    LET n == Len(ws)
        first(k) == \A j \in 1..(k - 1) : ws[j] # ws[k]
        total == SumFn([k \in 1..n |-> IF first(k) THEN WordScore(ws[k], cons, WordLen)
                                       ELSE 0], n)
    IN  [w \in Range(ws) |-> (WordScore(w, cons, WordLen) * Milli) \div total]

\* probabilites.get(word).unwrap_or(&0.0)
ProbOf(probs, w) == IF w \in DOMAIN probs THEN probs[w] ELSE 0

\* find_guess_fitness, in millionths:
\* entropy + bayesian * 2.7 + valid_bias * 0.1 + likelihood * 0.01 + seen_bias * -0.1
find_guess_fitness(g, ws, probs, freq, flags) ==
    LET entropy    == shannon_entropy(ws, g)
        bayesian   == ProbOf(probs, g)
        valid_bias == IF g \in Range(ws) THEN 1 ELSE 0
        likelihood == word_likelihood_score(g, freq)
        seen_bias  == get_word(flags, g)
    IN  entropy * 1000 + bayesian * 2700 + valid_bias * 100000
          + likelihood * 10 - seen_bias * 100000

---------------------------------------------------------------------------
(* Arg-max selection.                                                      *)

\* Mutant of max_key: the left operand is kept on equal keys too.
max_key_keep_left(a, b) == IF a.key >= b.key THEN a ELSE b

\* Mutant of max_key: the comparison is reversed.
max_key_reversed(a, b) == IF a.key < b.key THEN a ELSE b

\* The reduction operator of max_by_key (rayon's ParallelIterator and std's
\* Iterator alike): the left operand is kept only when its key is greater.
max_key(a, b) == IF a.key > b.key THEN a ELSE b

\* The map step of find_best_guess: each word of the vocabulary with its fitness.
ScoredWords(vocabulary, ws, probs, freq, flags) ==
    [k \in 1..Len(vocabulary) |->
        [word |-> vocabulary[k],
         key  |-> find_guess_fitness(vocabulary[k], ws, probs, freq, flags)]]

\* Sequential left-to-right reduction of a sequence of keyed items.
RECURSIVE ReduceSeq(_, _)
ReduceSeq(items, n) ==
    IF n = 1 THEN items[1] ELSE max_key(ReduceSeq(items, n - 1), items[n])

\* Mutant of PoolPick: the first word of the pool, whatever the probabilities.
PoolPickFirst(ws, probs) == ws[1]

\* words.iter().max_by_key(|word| probabilities.get(word).unwrap_or(0.0)).unwrap()
PoolPick(ws, probs) ==
    ReduceSeq([k \in 1..Len(ws) |-> [word |-> ws[k], key |-> ProbOf(probs, ws[k])]],
              Len(ws)).word

---------------------------------------------------------------------------
(* Terminal input of the assister: a line is the sequence of its           *)
(* whitespace-separated tokens, a token a sequence of characters.          *)

\* The result strings the user may type (besides malformed ones).
Results ==
    { <<"x", "x", "x", "x", "g">>,
      <<"x", "y", "x", "y", "x">>,
      <<"x", "g", "g", "g", "g">>,
      <<"x", "g", "g", "y", "g">>,
      <<"g", "g", "g", "g", "g">> }

AllGreen == <<"g", "g", "g", "g", "g">>

ExitLines == { << <<"e", "x", "i", "t">> >>, << <<"E", "X", "I", "T">> >> }

MalformedLines ==
    { <<>>,
      << Salet >>,
      << Salet, <<"x", "x", "x", "x", "g">>, <<"x", "x", "x", "x", "g">> >>,
      << <<"s", "a", "l", "e">>, <<"x", "x", "x", "x", "g">> >>,
      << Salet, <<"x", "x", "x", "g">> >>,
      << Salet, <<"x", "q", "x", "x", "g">> >>,
      << <<"z", "z", "z", "z", "z">>, <<"x", "x", "x", "x", "g">> >>,
      << <<"z", "z", "z", "z", "z">>, AllGreen >> }

\* The guesses the user may type (besides malformed ones).
TypedGuesses ==
    { Salet,
      <<"t", "i", "g", "h", "t">>,
      <<"b", "r", "a", "c", "e">>,
      <<"f", "r", "o", "n", "t">> }

Lines ==
    ExitLines \cup MalformedLines
      \cup { <<g, r>> : g \in TypedGuesses, r \in Results }

\* char::to_ascii_lowercase, on the characters that occur in Lines
Lower(c) ==
    CASE c = "E" -> "e" [] c = "X" -> "x" [] c = "I" -> "i" [] c = "T" -> "t"
      [] OTHER -> c

\* input.eq_ignore_ascii_case("exit")
IsExit(line) ==
    /\ Len(line) = 1
    /\ [k \in 1..Len(line[1]) |-> Lower(line[1][k])] = <<"e", "x", "i", "t">>

\* The map from result characters to colours.
ParseColor(c) ==
    CASE c = "g" -> Green [] c = "y" -> Yellow [] c = "x" -> Gray

ParseResult(r) == [p \in Pos |-> ParseColor(r[p])]

MsgBestGuess == "Best guess"
MsgTwoWords == "You must enter two words"
MsgLength == "Guess and result must be 5 characters long."
MsgChars == "Result must only contain 'g', 'y', or 'x'."
MsgNotWord == "Guess is not a valid word."
MsgWon == "Congratulations! You've guessed the word."
MsgNoWords == "No valid words left. Please check your input."
MsgSummary == "100.0% done"
InvalidMsgs == {MsgTwoWords, MsgLength, MsgChars, MsgNotWord}

\* Mutant of Rejection: the membership test of the guess is missing.
RejectionNoWordCheck(line, vocabulary) ==
    IF Len(line) # 2 THEN MsgTwoWords
    ELSE IF Len(line[1]) # 5 \/ Len(line[2]) # 5 THEN MsgLength
    ELSE IF \E k \in 1..Len(line[2]) : line[2][k] \notin {"g", "y", "x"} THEN MsgChars
    ELSE None

\* Which of the four validity checks of run_assister rejects the line, or None.
Rejection(line, vocabulary) ==
    IF Len(line) # 2 THEN MsgTwoWords
    ELSE IF Len(line[1]) # 5 \/ Len(line[2]) # 5 THEN MsgLength
    ELSE IF \E k \in 1..Len(line[2]) : line[2][k] \notin {"g", "y", "x"} THEN MsgChars
    ELSE IF line[1] \notin Range(vocabulary) THEN MsgNotWord
    ELSE None

---------------------------------------------------------------------------
(* The state machine.                                                      *)

EmptyMap == [w \in {} |-> 0]

Init ==
    /\ mode \in {"benchmark", "assister"}
    /\ hard_mode \in BOOLEAN
    /\ all_words = GuessWords
    /\ words = SolutionWords
    /\ seen = 0
    /\ freq_data = letter_frequency(SolutionWords)
    /\ probabilities = EmptyMap
    /\ constraints = NewConstraints
    /\ i = 0
    /\ guess = NoWord
    /\ scored = <<>>
    /\ partials = <<>>
    /\ iteration = 0
    /\ correct = NoWord
    /\ failures = 0
    /\ total_iterations = 0
    /\ pc = IF mode = "benchmark" THEN "episode" ELSE "select"
    /\ outcome = "none"
    /\ out = ""
    /\ hist = {}

\* benchmark: the head of the body of `for iteration in 0..iterations`.
BenchStartEpisode ==
    /\ mode = "benchmark" /\ pc = "episode" /\ iteration < iterations
    /\ words' = SolutionWords
    /\ freq_data' = letter_frequency(SolutionWords)
    /\ correct' = SolutionWords[iteration + 1]
    /\ seen' = 0
    /\ constraints' = NewConstraints
    /\ probabilities' = EmptyMap
    /\ i' = 0
    /\ guess' = NoWord
    /\ outcome' = "none"
    /\ hist' = {}
    /\ pc' = "select"
    /\ UNCHANGED <<mode, hard_mode, all_words, scored, partials, iteration, failures,
                   total_iterations, out>>

\* benchmark: the summary after the last episode.
BenchReport ==
    /\ mode = "benchmark" /\ pc = "episode" /\ iteration = iterations
    /\ out' = MsgSummary
    /\ pc' = "done"
    /\ UNCHANGED <<mode, hard_mode, all_words, words, seen, freq_data, probabilities,
                   constraints, i, guess, scored, partials, iteration, correct,
                   failures, total_iterations, outcome, hist>>

\* The selection of the round's guess, common to both loops: the fixed first
\* guess, the endgame pick from the pool, or the start of the parallel search
\* over `vocabulary`.  `next` is the position after a guess is selected.
SelectGuess(vocabulary, next) ==
    /\ i' = i + 1
    /\ IF i' = 1
       THEN /\ guess' = Salet
            /\ pc' = next
            /\ UNCHANGED <<scored, partials>>
       ELSE IF Len(words) <= 2 \/ i' >= max_iterations
       THEN IF words = <<>>
            THEN /\ pc' = "panic"
                 /\ UNCHANGED <<guess, scored, partials>>
            ELSE /\ guess' = PoolPick(words, probabilities)
                 /\ pc' = next
                 /\ UNCHANGED <<scored, partials>>
       ELSE /\ scored' = ScoredWords(vocabulary, words, probabilities, freq_data, seen)
            /\ partials' = scored'
            /\ pc' = "search"
            /\ UNCHANGED guess

\* Mutant of BenchVocabulary: hard mode is ignored.
BenchVocabularyAll == all_words

\* benchmark: the first argument of find_best_guess.
BenchVocabulary == IF hard_mode THEN words ELSE all_words

\* benchmark: `i += 1` and the choice of the guess.
BenchSelect ==
    /\ mode = "benchmark" /\ pc = "select"
    /\ SelectGuess(BenchVocabulary, "apply")
    /\ UNCHANGED <<mode, hard_mode, all_words, words, seen, freq_data, probabilities,
                   constraints, iteration, correct, failures, total_iterations,
                   outcome, out, hist>>

\* find_best_guess: one step of the parallel reduction, combining two adjacent
\* partial results.  Every grouping of the vocabulary into chunks and every
\* order of combining them is a sequence of such steps.
SearchCombine(k) ==
    /\ pc = "search"
    /\ k \in 1..(Len(partials) - 1)
    /\ partials' = [j \in 1..(Len(partials) - 1) |->
                        IF j < k THEN partials[j]
                        ELSE IF j = k THEN max_key(partials[k], partials[k + 1])
                        ELSE partials[j + 1]]
    /\ UNCHANGED <<mode, hard_mode, all_words, words, seen, freq_data, probabilities,
                   constraints, i, guess, scored, iteration, correct, failures,
                   total_iterations, pc, outcome, out, hist>>

\* find_best_guess: `.unwrap().0` on the result of the reduction.
SearchDone ==
    /\ pc = "search"
    /\ Len(partials) <= 1
    /\ IF partials = <<>>
       THEN /\ pc' = "panic"
            /\ UNCHANGED <<guess, out>>
       ELSE /\ guess' = partials[1].word
            /\ pc' = IF mode = "benchmark" THEN "apply" ELSE "read"
            /\ out' = IF mode = "benchmark" THEN out ELSE MsgBestGuess
    /\ partials' = <<>>
    /\ UNCHANGED <<mode, hard_mode, all_words, words, seen, freq_data, probabilities,
                   constraints, i, scored, iteration, correct, failures,
                   total_iterations, outcome, hist>>

\* Mutant of BudgetSpent: off by one.
BudgetSpentOffByOne == i > max_iterations

\* benchmark: `if i >= max_iterations` at the end of the loop body.
BudgetSpent == i >= max_iterations

\* benchmark: the rest of the loop body after the guess is chosen.
BenchApply ==
    /\ mode = "benchmark" /\ pc = "apply"
    /\ IF guess = correct
       THEN /\ outcome' = "won"
            /\ total_iterations' = total_iterations + i
            /\ iteration' = iteration + 1
            /\ pc' = "episode"
            /\ UNCHANGED <<seen, constraints, words, probabilities, freq_data,
                           failures, hist>>
       ELSE LET output == simulate_guess(correct, guess)
                cons2  == update_from_guess(constraints, guess, output)
                words2 == Retain(words, cons2)
            IN  /\ seen' = set_word(seen, guess, TRUE)
                /\ constraints' = cons2
                /\ words' = words2
                /\ probabilities' = update_word_probabilities(words2, cons2)
                /\ freq_data' = letter_frequency(words2)
                /\ hist' = hist \cup {<<guess, output>>}
                /\ IF BudgetSpent
                   THEN /\ failures' = failures + 1
                        /\ outcome' = "exhausted"
                        /\ total_iterations' = total_iterations + i
                        /\ iteration' = iteration + 1
                        /\ pc' = "episode"
                   ELSE /\ pc' = "select"
                        /\ UNCHANGED <<failures, outcome, total_iterations, iteration>>
    /\ scored' = <<>>
    /\ UNCHANGED <<mode, hard_mode, all_words, i, guess, partials, correct, out>>

\* run_assister: `i += 1`, the choice of best_guess and its printing.
AssistSelect ==
    /\ mode = "assister" /\ pc = "select"
    /\ i < MaxRounds
    /\ SelectGuess(all_words, "read")
    /\ out' = IF pc' = "read" THEN MsgBestGuess ELSE out
    /\ UNCHANGED <<mode, hard_mode, all_words, words, seen, freq_data, probabilities,
                   constraints, iteration, correct, failures, total_iterations,
                   outcome, hist>>

\* Mutant of AssistFold: the test for an empty pool is missing.
AssistFoldNoEmptyCheck(line) ==
    LET output == ParseResult(line[2])
        cons2  == update_from_guess(constraints, line[1], output)
        words2 == Retain(words, cons2)
    IN  /\ constraints' = cons2
        /\ words' = words2
        /\ all_words' = IF hard_mode THEN Retain(all_words, cons2) ELSE all_words
        /\ hist' = hist \cup {<<line[1], output>>}
        /\ scored' = <<>>
        /\ probabilities' = update_word_probabilities(words2, cons2)
        /\ freq_data' = letter_frequency(words2)
        /\ seen' = set_word(seen, guess, TRUE)
        /\ pc' = "select"
        /\ UNCHANGED <<out, outcome>>

\* run_assister: a valid line other than ggggg: fold, filter, refresh.
AssistFold(line) ==
    LET output == ParseResult(line[2])
        cons2  == update_from_guess(constraints, line[1], output)
        words2 == Retain(words, cons2)
    IN  /\ constraints' = cons2
        /\ words' = words2
        /\ all_words' = IF hard_mode THEN Retain(all_words, cons2) ELSE all_words
        /\ hist' = hist \cup {<<line[1], output>>}
        /\ scored' = <<>>
        /\ IF words2 = <<>>
           THEN /\ out' = MsgNoWords
                /\ outcome' = "no_words"
                /\ pc' = "done"
                /\ UNCHANGED <<probabilities, freq_data, seen>>
           ELSE /\ probabilities' = update_word_probabilities(words2, cons2)
                /\ freq_data' = letter_frequency(words2)
                /\ seen' = set_word(seen, guess, TRUE)
                /\ pc' = "select"
                /\ UNCHANGED <<out, outcome>>

\* Mutant of AssistInput: the test for ggggg is missing, a winning line is
\* folded like any other.
AssistInputNoWinCheck(line) ==
    /\ mode = "assister" /\ pc = "read"
    /\ IF IsExit(line)
       THEN /\ pc' = "done"
            /\ outcome' = "exit"
            /\ UNCHANGED <<all_words, words, seen, freq_data, probabilities,
                           constraints, scored, out, hist>>
       ELSE IF Rejection(line, all_words) # None
       THEN /\ out' = Rejection(line, all_words)
            /\ UNCHANGED <<all_words, words, seen, freq_data, probabilities,
                           constraints, scored, pc, outcome, hist>>
       ELSE AssistFold(line)
    /\ UNCHANGED <<mode, hard_mode, i, guess, partials, iteration, correct,
                   failures, total_iterations>>

\* run_assister: one line read from the terminal and everything done with it.
AssistInput(line) ==
    /\ mode = "assister" /\ pc = "read"
    /\ IF IsExit(line)
       THEN /\ pc' = "done"
            /\ outcome' = "exit"
            /\ UNCHANGED <<all_words, words, seen, freq_data, probabilities,
                           constraints, scored, out, hist>>
       ELSE IF Rejection(line, all_words) # None
       THEN /\ out' = Rejection(line, all_words)
            /\ UNCHANGED <<all_words, words, seen, freq_data, probabilities,
                           constraints, scored, pc, outcome, hist>>
       ELSE IF line[2] = AllGreen
       THEN /\ out' = MsgWon
            /\ outcome' = "won"
            /\ pc' = "done"
            /\ UNCHANGED <<all_words, words, seen, freq_data, probabilities,
                           constraints, scored, hist>>
       ELSE AssistFold(line)
    /\ UNCHANGED <<mode, hard_mode, i, guess, partials, iteration, correct,
                   failures, total_iterations>>

Next ==
    \/ BenchStartEpisode
    \/ BenchReport
    \/ BenchSelect
    \/ \E k \in 1..Len(GuessWords) : SearchCombine(k)
    \/ SearchDone
    \/ BenchApply
    \/ AssistSelect
    \/ \E line \in Lines : AssistInput(line)

Spec == Init /\ [][Next]_vars

---------------------------------------------------------------------------
(* A harness for the classifier and the constraint model as pure           *)
(* functions: any hidden answer, any sequence of at most MaxFolds guesses, *)
(* each folded with the feedback simulate_guess gives for it.              *)

FoldInit ==
    /\ mode = "fold"
    /\ hard_mode = FALSE
    /\ all_words = GuessWords
    /\ words = SolutionWords
    /\ seen = 0
    /\ freq_data = letter_frequency(SolutionWords)
    /\ probabilities = EmptyMap
    /\ constraints = NewConstraints
    /\ i = 0
    /\ guess = NoWord
    /\ scored = <<>>
    /\ partials = <<>>
    /\ iteration = 0
    /\ correct \in Range(SolutionWords)
    /\ failures = 0
    /\ total_iterations = 0
    /\ pc = "fold"
    /\ outcome = "none"
    /\ out = ""
    /\ hist = {}

FoldGuess(g) ==
    /\ mode = "fold" /\ i < MaxFolds
    /\ LET output == simulate_guess(correct, g)
           cons2  == update_from_guess(constraints, g, output)
       IN  /\ constraints' = cons2
           /\ words' = Retain(words, cons2)
           /\ hist' = hist \cup {<<g, output>>}
    /\ i' = i + 1
    /\ guess' = g
    /\ UNCHANGED <<mode, hard_mode, all_words, seen, freq_data, probabilities,
                   scored, partials, iteration, correct, failures, total_iterations,
                   pc, outcome, out>>

FoldNext == \E g \in Range(GuessWords) : FoldGuess(g)

FoldSpec == FoldInit /\ [][FoldNext]_vars

---------------------------------------------------------------------------
(* A harness for Constraints alone: any sequence of at most MaxUpdates     *)
(* calls of update_from_guess, each with any guess of UpdateGuesses and    *)
(* any feedback of UpdateOutputs, truthful for some answer or not.         *)

\* The guesses folded: one with a repeated letter, one without.
UpdateGuesses == { Salet, <<"t", "i", "g", "h", "t">> }

\* The feedbacks folded: every colouring of the first and the last position
\* and one colour for the three positions between them.
UpdateOutputs ==
    { output \in [Pos -> WordleAnswerColor] :
          output[2] = output[3] /\ output[3] = output[4] }

UpdateInit ==
    /\ mode = "update"
    /\ hard_mode = FALSE
    /\ all_words = GuessWords
    /\ words = SolutionWords
    /\ seen = 0
    /\ freq_data = letter_frequency(SolutionWords)
    /\ probabilities = EmptyMap
    /\ constraints = NewConstraints
    /\ i = 0
    /\ guess = NoWord
    /\ scored = <<>>
    /\ partials = <<>>
    /\ iteration = 0
    /\ correct = NoWord
    /\ failures = 0
    /\ total_iterations = 0
    /\ pc = "update"
    /\ outcome = "none"
    /\ out = ""
    /\ hist = {}

UpdateAny(g, output) ==
    /\ mode = "update" /\ i < MaxUpdates
    /\ constraints' = update_from_guess(constraints, g, output)
    /\ hist' = hist \cup {<<g, output>>}
    /\ i' = i + 1
    /\ guess' = g
    /\ UNCHANGED <<mode, hard_mode, all_words, words, seen, freq_data,
                   probabilities, scored, partials, iteration, correct, failures,
                   total_iterations, pc, outcome, out>>

UpdateNext == \E g \in UpdateGuesses : \E output \in UpdateOutputs : UpdateAny(g, output)

UpdateSpec == UpdateInit /\ [][UpdateNext]_vars

---------------------------------------------------------------------------
(* Properties.                                                             *)

\* The word w gives, for every guess folded so far, the feedback received.
Consistent(w) == \A h \in hist : simulate_guess(w, h[1]) = h[2]

\* The guess of this round came out of find_best_guess.
SearchSelected ==
    /\ pc \in {"apply", "read"}
    /\ scored # <<>>

\* The greatest fitness of the vocabulary searched.
MaxScore ==
    CHOOSE m \in {scored[k].key : k \in 1..Len(scored)} :
        \A k \in 1..Len(scored) : scored[k].key <= m

\* C1: after folding simulate_guess(a, g) for any sequence of guesses g into a
\* fresh Constraints, matches(a) is true, and the answer a is still in the pool
\* filtered with these constraints.  (FoldSpec)
C1_AnswerAlwaysMatches ==
    mode = "fold" => (matches(constraints, correct) /\ correct \in Range(words))

C1_Witness ==
    /\ mode = "fold" /\ i >= 2 /\ guess # correct
    /\ constraints.excluded_letters # <<>>
    /\ \E p \in Pos : constraints.included_letters[p] # <<>>
    /\ \E p \in Pos : constraints.known_letters[p] # None
    /\ Len(words) < Len(SolutionWords)

\* C2: an interactive session ends after the sixth round: the round counter of
\* run_assister never exceeds 6 (no seventh "Best guess").
C2_AssisterStopsAfterSix ==
    mode = "assister" => i <= max_iterations

\* C3 (as claimed): after every round the pool is exactly the set of solution
\* words consistent with all feedback received so far.  Stated for the
\* benchmark, where every feedback is the classifier's own for the answer.
C3_PoolExactlyConsistent ==
    mode = "benchmark" =>
        Range(words) = {w \in Range(SolutionWords) : Consistent(w)}

\* C3 (amended): after every round the pool contains every solution word
\* consistent with all feedback received so far (and possibly other words).
C3_PoolContainsConsistent ==
    mode \in {"benchmark", "assister"} =>
        {w \in Range(SolutionWords) : Consistent(w)} \subseteq Range(words)

C3_Witness ==
    /\ mode = "benchmark" /\ pc = "select"
    /\ Cardinality(hist) = 2
    /\ correct \in Range(words)
    /\ \E w \in Range(words) : ~ Consistent(w)

C6_TaggedNeverExcluded ==
    \A h \in hist : \A p \in Pos :
        h[2][p] # Gray => h[1][p] \notin Range(constraints.excluded_letters)

\* The lines the specification calls malformed.
Malformed(line) ==
    \/ Len(line) # 2
    \/ /\ Len(line) = 2
       /\ \/ Len(line[1]) # 5
          \/ Len(line[2]) # 5
          \/ \E k \in 1..Len(line[2]) : line[2][k] \notin {"g", "y", "x"}
          \/ line[1] \notin Range(GuessWords)

C8_SelectionNeverOnEmpty ==
    /\ pc # "panic"
    /\ pc \in {"select", "search", "apply", "read"} =>
            (words # <<>> /\ all_words # <<>>)
    /\ words = <<>> =>
            (mode = "assister" /\ pc = "done" /\ out = MsgNoWords
                /\ outcome = "no_words")

C8_Witness ==
    /\ mode = "assister" /\ words = <<>> /\ pc = "done" /\ i >= 2

\* C9: a benchmark episode makes at most 6 guesses, one per round; it ends as
\* won at the first guess equal to the answer, and it is counted as a failure
\* exactly when six guesses were made and none of them equalled the answer.
C9_EpisodeBounded ==
    /\ [](mode = "benchmark" =>
            /\ i <= max_iterations
            /\ \A h \in hist : h[1] # correct)
    /\ [][mode = "benchmark" =>
            /\ iteration' # iteration =>
                /\ iteration' = iteration + 1
                /\ total_iterations' = total_iterations + i
                /\ guess = correct => (failures' = failures /\ outcome' = "won")
                /\ guess # correct =>
                      (i = max_iterations /\ failures' = failures + 1
                          /\ outcome' = "exhausted")
            /\ iteration' = iteration => failures' = failures
            /\ (pc = "select" /\ pc' # pc) => i' = i + 1
            /\ pc # "select" => (i' = i \/ pc = "episode")
            /\ (pc = "apply" /\ (guess = correct \/ i = max_iterations)) =>
                  iteration' = iteration + 1]_vars

C9_Witness ==
    /\ mode = "benchmark" /\ pc = "episode" /\ outcome = "exhausted"
    /\ failures >= 1 /\ i = max_iterations /\ guess # correct

\* C10: the word find_best_guess returns has the maximal fitness of the whole
\* vocabulary, and it is the same word however the parallel reduction groups
\* the vocabulary and combines the partial maxima: at every point of the
\* reduction the partial maxima still determine the result of the sequential
\* left-to-right reduction.
C10_MaxForEveryPartition ==
    /\ (pc = "search" /\ partials # <<>>) =>
            ReduceSeq(partials, Len(partials))
                = ReduceSeq(scored, Len(scored))
    /\ SearchSelected =>
            /\ guess = ReduceSeq(scored, Len(scored)).word
            /\ \E k \in 1..Len(scored) :
                    scored[k].word = guess /\ scored[k].key = MaxScore

C10_Witness ==
    /\ pc = "search"
    /\ Len(partials) >= 3
    /\ Len(partials) < Len(scored)
    /\ partials[1] = scored[1]
    /\ partials[2] = scored[2]
    /\ partials[Len(partials)] # scored[Len(scored)]

IsSubseq(s, t) == s = SelectSeq(t, LAMBDA w : w \in Range(s))

\* C12: within an episode the pool never grows and is never re-expanded: after
\* every step of a round the pool is a subsequence, in the same order, of the
\* pool before the step, hence no longer, and it is always a subsequence of the
\* solution vocabulary.
C12_PoolOnlyShrinks ==
    /\ [](IsSubseq(words, SolutionWords))
    /\ [][pc # "episode" =>
            /\ IsSubseq(words', words)
            /\ Len(words') <= Len(words)]_vars

C12_Witness ==
    /\ mode = "assister" /\ pc = "read"
    /\ Cardinality(hist) >= 2
    /\ Len(words) = 1
    /\ \E w \in Range(SolutionWords) \ Range(words) : matches(constraints, w)

\* C13: classifying a word against itself gives Green at all five positions:
\* whenever the guess folded is the hidden answer, the feedback simulate_guess
\* produced for it is all Green, repeated letters included.
C13_SelfGuessAllGreen ==
    /\ \A h \in hist : h[1] = correct => \A p \in Pos : h[2][p] = Green
    /\ (guess # NoWord /\ guess = correct) =>
            simulate_guess(correct, guess) = [p \in Pos |-> Green]

C13_Witness ==
    /\ mode = "fold" /\ i >= 2
    /\ guess = correct
    /\ \E p \in Pos : \E q \in Pos : p # q /\ correct[p] = correct[q]
    /\ <<correct, [p \in Pos |-> Green]>> \in hist

\* The guess of this round is the endgame pick from the pool (a round after the
\* first with at most two words left, or the last allowed round or later).
EndgameSelected ==
    /\ pc \in {"apply", "read"}
    /\ i >= 2
    /\ scored = <<>>

\* C14 (as claimed): in the endgame the guess is the first word of the pool.
C14_FirstOfPool ==
    EndgameSelected => guess = words[1]

\* C14 (amended): in the endgame the guess is the pool word with the greatest
\* Bayesian probability, the last one in pool order among equals; it need not
\* be the first word of the pool.
C14_MostProbableOfPool ==
    EndgameSelected =>
        /\ Len(words) <= 2 \/ i >= max_iterations
        /\ \E k \in 1..Len(words) :
              /\ guess = words[k]
              /\ \A j \in 1..Len(words) :
                    ProbOf(probabilities, words[j]) <= ProbOf(probabilities, guess)
              /\ \A j \in (k + 1)..Len(words) :
                    ProbOf(probabilities, words[j]) < ProbOf(probabilities, guess)

C14_Witness ==
    /\ EndgameSelected
    /\ mode = "benchmark"
    /\ Len(words) = 2
    /\ guess = words[2]

\* The three conditions of the claim C15 on a word w, read on the current
\* constraints: (a) and (b) as claimed, (c) as claimed and (c) as amended.
HasOneOfEachSet(w) ==
    \A p \in Pos :
        constraints.included_letters[p] # <<>> =>
            Range(constraints.included_letters[p]) \cap Range(w) # {}

HasNoExcluded(w) == Range(constraints.excluded_letters) \cap Range(w) = {}

PositionsAsClaimed(w) ==
    \A p \in Pos :
        /\ constraints.known_letters[p] # None => w[p] = constraints.known_letters[p]
        /\ w[p] \notin Range(constraints.included_letters[p])

PositionsAsCoded(w) ==
    \A p \in Pos :
        /\ constraints.known_letters[p] # None => w[p] = constraints.known_letters[p]
        /\ constraints.known_letters[p] = None =>
                w[p] \notin Range(constraints.included_letters[p])

\* C15 (as claimed): matches(w) holds exactly when (a) every non-empty
\* per-position set has a letter in w, (b) no excluded letter is in w, and (c)
\* at every position w has the known letter if one is set and a letter that is
\* not in the position's set.
C15_MatchesAsClaimed ==
    \A w \in Range(GuessWords) :
        matches(constraints, w) <=>
            (HasOneOfEachSet(w) /\ HasNoExcluded(w) /\ PositionsAsClaimed(w))

\* C15 (amended): as claimed, except that in (c) the position's set is looked
\* at only where no known letter is set.
C15_MatchesAsCoded ==
    \A w \in Range(GuessWords) :
        matches(constraints, w) <=>
            (HasOneOfEachSet(w) /\ HasNoExcluded(w) /\ PositionsAsCoded(w))

C15_Witness ==
    /\ mode = "update" /\ i = 2
    /\ \E w \in Range(GuessWords) :
          /\ matches(constraints, w)
          /\ \E p \in Pos :
                /\ constraints.known_letters[p] = w[p]
                /\ w[p] \in Range(constraints.included_letters[p])

\* The solution vocabulary filtered by matches under the current constraints.
MatchingVocabulary == SelectSeq(SolutionWords, LAMBDA w : matches(constraints, w))

\* C16 (as claimed): after every round the pool is, in order, exactly the
\* solution vocabulary filtered by matches under the current constraints.
C16_PoolIsFilteredVocabulary ==
    words = MatchingVocabulary

\* C16 (amended): after every round the pool is the pool of the round before
\* filtered by matches under the new constraints; it is, in order, a
\* subsequence of the solution vocabulary filtered under the current
\* constraints, and not always the whole of it.
C16_PoolIsFilteredPool ==
    /\ [](IsSubseq(words, MatchingVocabulary))
    /\ [][(pc # "episode" /\ constraints' # constraints) =>
            \A w \in Range(SolutionWords) :
                w \in Range(words') <=>
                    (w \in Range(words) /\ matches(constraints', w))]_vars

C16_Witness ==
    /\ mode = "assister" /\ pc = "select"
    /\ words # <<>>
    /\ words # MatchingVocabulary
    /\ \A h \in hist : \E p \in Pos : h[2][p] = Yellow

\* C17: whenever find_best_guess is called in a round after the first, the
\* seen-letter flags hold exactly the letters of the guesses submitted in the
\* rounds before (in the assister, the guesses the user typed).
C17_SeenIsSubmittedLetters ==
    (pc \in {"select", "search"} /\ i >= 1) =>
        \A c \in Range(Letters) :
            get(seen, c) <=> \E h \in hist : c \in Range(h[1])

\* The letter at position p of g was tagged Green or Yellow at a position
\* before p.
TaggedEarlier(g, output, p) ==
    \E q \in 1..(p - 1) : g[q] = g[p] /\ output[q] # Gray

\* C18: one call of update_from_guess adds to excluded_letters exactly the
\* letters tagged Gray at a position with no Green or Yellow tag of the same
\* letter at an earlier position of the guess; a Gray position leaves
\* known_letters and the per-position set of its position alone, and Green and
\* Yellow positions add nothing to excluded_letters.
C18_GrayExcludesUnlessTaggedEarlier ==
    [][\A g \in UpdateGuesses : \A output \in UpdateOutputs :
          UpdateAny(g, output) =>
            /\ Range(constraints'.excluded_letters) =
                  Range(constraints.excluded_letters) \cup
                      { g[p] : p \in { q \in Pos : /\ output[q] = Gray
                                                  /\ ~ TaggedEarlier(g, output, q) } }
            /\ \A p \in Pos :
                  output[p] = Gray =>
                      /\ constraints'.known_letters[p] = constraints.known_letters[p]
                      /\ constraints'.included_letters[p] =
                            constraints.included_letters[p]
            /\ (\A p \in Pos : output[p] # Gray) =>
                  constraints'.excluded_letters = constraints.excluded_letters]_vars

C18_Witness ==
    /\ mode = "update" /\ i >= 1
    /\ \E h \in hist :
          /\ h[1][1] = h[1][5]
          /\ h[2][1] = Yellow /\ h[2][5] = Gray
          /\ h[1][5] \notin Range(constraints.excluded_letters)
          /\ h[2][2] = Gray
          /\ h[1][2] \in Range(constraints.excluded_letters)

\* C19: in a benchmark episode a wrong guess, once folded with the feedback
\* simulate_guess gives for it, does not match the constraints in that round or
\* any later one and is not in the pool; so a wrong guess taken from the pool
\* makes the pool strictly shorter, and no word is guessed from the pool twice.
C19_WrongGuessNeverMatchesAgain ==
    /\ [](mode = "benchmark" =>
            /\ \A h \in hist :
                  /\ h[2] = simulate_guess(correct, h[1])
                  /\ ~ matches(constraints, h[1])
                  /\ h[1] \notin Range(words)
            /\ (pc = "apply" /\ guess \in Range(words)) =>
                  \A h \in hist : h[1] # guess)
    /\ [][(/\ mode = "benchmark" /\ pc = "apply"
           /\ guess # correct /\ guess \in Range(words)) =>
              /\ Len(words') < Len(words)
              /\ guess \notin Range(words')
              /\ ~ matches(constraints', guess)]_vars

C19_Witness ==
    /\ mode = "benchmark" /\ pc = "apply"
    /\ Cardinality(hist) >= 3
    /\ guess \in Range(words)
    /\ \E h \in hist : h[1] \in Range(SolutionWords) /\ h[1] # correct

===========================================================================
